---- MODULE Spec2Model ----
(***************************************************************************)
(* A model of the assertion-and-failure-reporting engine of spectral       *)
(* (src/src/lib.rs): SpecDescription, Spec and AssertionFailure, the panic *)
(* message that fail() and fail_with_message() format, and one assertion   *)
(* chain driven through the public operations, those of option.rs,         *)
(* result.rs, hashmap.rs, numeric.rs and iter.rs included.                 *)
(*                                                                         *)
(* A String is a sequence of tokens; format!() is concatenation (\o).      *)
(* An Option<T> is a sequence of length at most one: None is <<>>.         *)
(***************************************************************************)
EXTENDS Integers, Sequences, FiniteSets, TLC

VARIABLES
    colours,    \* TRUE: built with cfg(not(test)), the TERM_* codes are escapes
    pc,         \* where the chain is: start, described, spec, building, done, panicked
    desc,       \* Option<SpecDescription>
    spec,       \* Option<Spec>
    failure,    \* Option<AssertionFailure>: the builder of the chain, if any
    panic,      \* Option<String>: the payload of the panic raised, if any
    last,       \* the operation that ran last: its name, argument and receiver
    prev,       \* the operation that ran before it
    outer,      \* Option<Spec>: the Spec an unwrapping assertion was called on,
                \* which stays in use beside the Spec it returned
    written     \* what the chain was given: the description, the values of the
                \* last named and the last at_location call, and whether one
                \* of these calls came after a check that had passed (late)

vars == <<colours, pc, desc, spec, outer, failure, panic, last, prev, written>>

\* ------------------------------------------------------------------ bounds

\* i32, u8 and f64 subjects take the values 1..MaxInt.
MaxInt == 2

\* ------------------------------------------------------------------ Option

None == <<>>

Some(x) == <<x>>

is_some(o) == Len(o) > 0

unwrap(o) == o[1]

\* ------------------------------------------------------------------ values

\* The subject types of the chain: S of Spec<'s, S>. A value is its type, its
\* number or string, and the values it contains (inner).
I32(n) == [ty |-> "i32", n |-> n, s |-> "", inner |-> <<>>]

U8(n) == [ty |-> "u8", n |-> n, s |-> "", inner |-> <<>>]

F64(n) == [ty |-> "f64", n |-> n, s |-> "", inner |-> <<>>]

NaN == [ty |-> "f64", n |-> 0, s |-> "NaN", inner |-> <<>>]

Str(s) == [ty |-> "str", n |-> 0, s |-> s, inner |-> <<>>]

TestStruct(value) == [ty |-> "TestStruct", n |-> value, s |-> "", inner |-> <<>>]

\* Option<&str>
OptionSome(v) == [ty |-> "option", n |-> 0, s |-> "Some", inner |-> <<v>>]

OptionNone == [ty |-> "option", n |-> 0, s |-> "None", inner |-> <<>>]

\* Result<&str, &str>
Ok(v) == [ty |-> "result", n |-> 0, s |-> "Ok", inner |-> <<v>>]

Err(v) == [ty |-> "result", n |-> 0, s |-> "Err", inner |-> <<v>>]

\* HashMap<&str, &str>: its entries in the order this map iterates them.
Entry(k, v) == [ty |-> "entry", n |-> 0, s |-> "", inner |-> <<k, v>>]

HashMap(entries) == [ty |-> "hashmap", n |-> 0, s |-> "", inner |-> entries]

Strs == {Str(s) : s \in {"Hello", "Hi"}}

HashMaps ==
    {HashMap(<<Entry(Str("hello"), Str("Hi"))>>),
     HashMap(<<Entry(Str("hello"), Str("Hi")), Entry(Str("bye"), Str("Hello"))>>),
     HashMap(<<Entry(Str("bye"), Str("Hello")), Entry(Str("hello"), Str("Hi"))>>)}

\* Vec<T>: its items in iteration order. vec.iter() and any other IntoIterator
\* over &T go through the same items.
Vec(t, items) == [ty |-> t, n |-> 0, s |-> "", inner |-> items]

\* The sequences of at most two items of S.
UpToTwo(S) == {<<>>} \cup {<<a>> : a \in S} \cup {<<a, b>> : a, b \in S}

VecTypes == {"Vec<i32>", "Vec<TestStruct>"}

\* T of Vec<T>
Item(t) == IF t = "Vec<i32>" THEN "i32" ELSE "TestStruct"

Vecs ==
    {Vec("Vec<i32>", q) : q \in UpToTwo({I32(n) : n \in 1..MaxInt})}
        \cup {Vec("Vec<TestStruct>", q) : q \in UpToTwo({TestStruct(n) : n \in 1..MaxInt})}

\* The values looked for in an iterable of items of type t: those of its
\* items and one that no iterable holds.
Probes(t) ==
    CASE t = "i32" -> {I32(n) : n \in 1..(MaxInt + 1)}
      [] t = "u8" -> {U8(n) : n \in 1..(MaxInt + 1)}
      [] t = "TestStruct" -> {TestStruct(n) : n \in 1..(MaxInt + 1)}

\* The values given to is_ok_containing and is_err_containing.
Contents == {Str("Hello"), Str("Oh no")}

\* The keys given to contains_key.
Keys == {Str("hello"), Str("bye"), Str("hey")}

Values ==
    {I32(n) : n \in 1..MaxInt} \cup {F64(n) : n \in 1..MaxInt} \cup {NaN}
        \cup Strs
        \cup {TestStruct(n) : n \in 1..MaxInt}
        \cup {U8(n) : n \in 1..MaxInt}
        \cup {OptionSome(Str("Hello")), OptionNone}
        \cup {Ok(Str("Hello")), Err(Str("Oh no"))}
        \cup HashMaps

\* The values of the type of v: what a parameter of type &S can be.
SameType(v) == {w \in Values : w.ty = v.ty}

Range(seq) == {seq[i] : i \in 1..Len(seq)}

\* PartialEq::eq of the subject type. f64 is not reflexive: NaN != NaN; two
\* HashMaps are equal when they hold the same entries, in whatever order.
eq(a, b) ==
    IF a.ty = "f64" /\ (a.s = "NaN" \/ b.s = "NaN") THEN FALSE
    ELSE IF a.ty = "hashmap" THEN b.ty = "hashmap" /\ Range(a.inner) = Range(b.inner)
    ELSE a.ty = b.ty /\ a.n = b.n /\ a.s = b.s /\ a.inner = b.inner

\* PartialOrd::partial_cmp of the numeric subject types: None when either side
\* is NaN.
partial_cmp(a, b) ==
    IF a.s = "NaN" \/ b.s = "NaN" THEN None
    ELSE IF a.n < b.n THEN Some("Less")
    ELSE IF a.n = b.n THEN Some("Equal")
    ELSE Some("Greater")

\* PartialOrd::lt, le, gt, ge
lt(a, b) == partial_cmp(a, b) = Some("Less")

le(a, b) == partial_cmp(a, b) \in {Some("Less"), Some("Equal")}

gt(a, b) == partial_cmp(a, b) = Some("Greater")

ge(a, b) == partial_cmp(a, b) \in {Some("Greater"), Some("Equal")}

\* The subject types of the model that are PartialOrd.
Ordered(v) == v.ty \in {"i32", "u8", "f64"}

\* The items of a list, each rendered by Render, separated by ", ".
RECURSIVE Join(_, _)
Join(items, sep) ==
    IF Len(items) = 0 THEN <<>>
    ELSE IF Len(items) = 1 THEN items[1]
    ELSE items[1] \o sep \o Join(Tail(items), sep)

\* format!("{:?}", v): the Debug rendering.
RECURSIVE Debug(_)
Debug(v) ==
    CASE v.ty = "i32" -> <<ToString(v.n)>>
      [] v.ty = "u8" -> <<ToString(v.n)>>
      [] v.ty = "f64" -> IF v.s = "NaN" THEN <<"NaN">> ELSE <<ToString(v.n), ".0">>
      [] v.ty = "str" -> <<"\"", v.s, "\"">>
      [] v.ty = "TestStruct" -> <<"TestStruct { value: ", ToString(v.n), " }">>
      [] v.ty = "option" ->
            IF v.s = "None" THEN <<"None">>
            ELSE <<"Some(">> \o Debug(v.inner[1]) \o <<")">>
      [] v.ty = "result" -> <<v.s, "(">> \o Debug(v.inner[1]) \o <<")">>
      [] v.ty = "entry" -> Debug(v.inner[1]) \o <<": ">> \o Debug(v.inner[2])
      [] v.ty = "hashmap" ->
            <<"{">> \o Join([i \in 1..Len(v.inner) |-> Debug(v.inner[i])], <<", ">>)
                \o <<"}">>
      [] v.ty \in VecTypes ->
            <<"[">> \o Join([i \in 1..Len(v.inner) |-> Debug(v.inner[i])], <<", ">>)
                \o <<"]">>

\* format!("{:?}", keys) of a Vec<&K>
DebugVec(items) ==
    <<"[">> \o Join([i \in 1..Len(items) |-> Debug(items[i])], <<", ">>) \o <<"]">>

\* ------------------------------------------------------------------ inputs

Descriptions == {"test condition", "closure"}

SubjectNames == {"number one", "a word"}

Locations == {"src/lib.rs:529", "src/lib.rs:544"}

\* The closures given to matches(): Fn(&S) -> bool.
Predicates == {"is_hello", "always", "never"}

Call(p, v) ==
    CASE p = "is_hello" -> v.ty = "str" /\ v.s = "Hello"
      [] p = "always" -> TRUE
      [] p = "never" -> FALSE

\* The closures given to map(): Fn(&'s S) -> &'s T.
\* "value" is |val| &val.value on a TestStruct, "self" is |val| val.
MappingFunctions == {"value", "self"}

Applicable(f, v) == f = "value" => v.ty = "TestStruct"

Apply(f, v) == IF f = "value" THEN U8(v.n) ELSE v

\* The texts an extension hands to with_expected / with_actual.
Texts == {<<"option[some]">>, <<"option[none]">>}

\* The texts handed to fail_with_message.
Messages == {<<"expectation failed">>}

\* ------------------------------------------------------------------ colours

TERM_RED == IF colours THEN <<"\\x1B[31m">> ELSE <<>>

TERM_BOLD == IF colours THEN <<"\\x1B[1m">> ELSE <<>>

TERM_RESET == IF colours THEN <<"\\x1B[0m">> ELSE <<>>

\* ------------------------------------------------------------------ lib.rs

\* pub fn assert_that
assert_that(subject) ==
    [subject |-> subject, subject_name |-> None, location |-> None,
     description |-> None]

\* pub fn asserting
asserting(description) == [value |-> description, location |-> None]

\* SpecDescription::at_location
desc_at_location(self, location) == [self EXCEPT !.location = Some(location)]

\* A variant of SpecDescription::that that does not pass the location on.
that_without_location(self, subject) ==
    [subject |-> subject, subject_name |-> None, location |-> None,
     description |-> Some(self.value)]

\* SpecDescription::that
that(self, subject) ==
    [subject |-> subject, subject_name |-> None, location |-> self.location,
     description |-> Some(self.value)]

\* A variant of from_spec that takes the Spec as assert_that made it.
from_spec_as_made(s) ==
    [spec |-> [s EXCEPT !.subject_name = None, !.location = None],
     expected |-> None, actual |-> None]

\* AssertionFailure::from_spec
from_spec(s) == [spec |-> s, expected |-> None, actual |-> None]

\* A variant of with_expected that starts the builder's texts afresh.
with_expected_clears_actual(self, expected) ==
    [self EXCEPT !.expected = Some(expected), !.actual = None]

\* AssertionFailure::with_expected
with_expected(self, expected) == [self EXCEPT !.expected = Some(expected)]

\* AssertionFailure::with_actual
with_actual(self, actual) == [self EXCEPT !.actual = Some(actual)]

\* A variant of maybe_build_location with no line break before the location.
maybe_build_location_same_line(self) ==
    IF is_some(self.spec.location)
    THEN <<"\t">> \o TERM_BOLD \o <<"at location: ", unwrap(self.spec.location)>>
             \o TERM_RESET \o <<"\n">>
    ELSE <<>>

\* AssertionFailure::maybe_build_location
maybe_build_location(self) ==
    IF is_some(self.spec.location)
    THEN <<"\n", "\t">> \o TERM_BOLD \o <<"at location: ", unwrap(self.spec.location)>>
             \o TERM_RESET \o <<"\n">>
    ELSE <<>>

\* AssertionFailure::maybe_build_description
maybe_build_description(self) ==
    IF is_some(self.spec.description)
    THEN <<"\n", "\t">> \o TERM_BOLD \o <<unwrap(self.spec.description), ":">>
             \o TERM_RESET
    ELSE <<>>

\* A variant of maybe_build_subject_name that leaves the line break and tab of
\* the segment behind when the Spec has no subject name.
maybe_build_subject_name_blank(self) ==
    <<"\n", "\t">>
        \o (IF is_some(self.spec.subject_name)
            THEN TERM_BOLD \o <<"for subject [", unwrap(self.spec.subject_name), "]">>
                     \o TERM_RESET
            ELSE <<>>)

\* AssertionFailure::maybe_build_subject_name
maybe_build_subject_name(self) ==
    IF is_some(self.spec.subject_name)
    THEN <<"\n", "\t">> \o TERM_BOLD
             \o <<"for subject [", unwrap(self.spec.subject_name), "]">> \o TERM_RESET
    ELSE <<>>

\* A variant of fail that puts the subject name before the description.
fail_name_first(self) ==
    IF ~is_some(self.expected) \/ ~is_some(self.actual)
    THEN <<"invalid assertion">>
    ELSE maybe_build_subject_name(self) \o maybe_build_description(self)
             \o <<"\n", "\t">> \o TERM_RED
             \o <<"expected: ">> \o unwrap(self.expected)
             \o <<"\n", "\t", " but was: ">> \o unwrap(self.actual)
             \o TERM_RESET \o <<"\n">> \o maybe_build_location(self)

\* A variant of fail without the check that expected and actual are set: a
\* missing text is rendered as the empty string.
fail_unchecked(self) ==
    maybe_build_description(self) \o maybe_build_subject_name(self)
        \o <<"\n", "\t">> \o TERM_RED
        \o <<"expected: ">> \o (IF is_some(self.expected) THEN unwrap(self.expected) ELSE <<>>)
        \o <<"\n", "\t", " but was: ">>
        \o (IF is_some(self.actual) THEN unwrap(self.actual) ELSE <<>>)
        \o TERM_RESET \o <<"\n">> \o maybe_build_location(self)

\* AssertionFailure::fail: the payload of the panic it raises.
fail(self) ==
    IF ~is_some(self.expected) \/ ~is_some(self.actual)
    THEN <<"invalid assertion">>
    ELSE LET location == maybe_build_location(self)
             subject_name == maybe_build_subject_name(self)
             description == maybe_build_description(self)
         IN  description \o subject_name \o <<"\n", "\t">> \o TERM_RED
                 \o <<"expected: ">> \o unwrap(self.expected)
                 \o <<"\n", "\t", " but was: ">> \o unwrap(self.actual)
                 \o TERM_RESET \o <<"\n">> \o location

\* A variant of fail_with_message with the guard of fail: it raises "invalid
\* assertion" unless expected and actual are set.
fail_with_message_checked(self, message) ==
    IF ~is_some(self.expected) \/ ~is_some(self.actual)
    THEN <<"invalid assertion">>
    ELSE maybe_build_description(self) \o maybe_build_subject_name(self)
             \o <<"\n", "\t">> \o TERM_RED \o message
             \o TERM_RESET \o <<"\n">> \o maybe_build_location(self)

\* AssertionFailure::fail_with_message: the payload of the panic it raises.
fail_with_message(self, message) ==
    LET location == maybe_build_location(self)
        subject_name == maybe_build_subject_name(self)
        description == maybe_build_description(self)
    IN  description \o subject_name \o <<"\n", "\t">> \o TERM_RED \o message
            \o TERM_RESET \o <<"\n">> \o location

\* Spec::at_location
at_location(self, location) == [self EXCEPT !.location = Some(location)]

\* A variant of Spec::named that keeps a name the Spec already has.
named_keeps_first(self, subject_name) ==
    IF is_some(self.subject_name) THEN self
    ELSE [self EXCEPT !.subject_name = Some(subject_name)]

\* A variant of Spec::named that writes the description field.
named_as_description(self, subject_name) ==
    [self EXCEPT !.subject_name = Some(subject_name),
                 !.description = Some(subject_name)]

\* Spec::named
named(self, subject_name) == [self EXCEPT !.subject_name = Some(subject_name)]

\* What a check called on &mut self does: the builder it made and the panic it
\* raised, if any, and the Spec it leaves behind. A check that returns leaves
\* failure and panic None.
Returns(self) == [failure |-> None, panic |-> None, self |-> self]

\* A variant of Raises in which fail() comes back to the assertion, which
\* goes on with the Spec it has.
Raises_and_returns(self, builder, payload) ==
    [failure |-> Some(builder), panic |-> None, self |-> self, ret |-> self]

Raises(self, builder, payload) ==
    [failure |-> Some(builder), panic |-> Some(payload), self |-> self]

\* A check that returns a new Spec (ret) over a value the subject contains.
Unwraps(self, ret) ==
    [failure |-> None, panic |-> None, self |-> self, ret |-> ret]

\* A variant of is_equal_to with the condition inverted.
is_equal_to_inverted(self, expected) ==
    LET subject == self.subject
    IN  IF eq(subject, expected)
        THEN LET b == with_actual(
                          with_expected(from_spec(self),
                                        <<"<">> \o Debug(expected) \o <<">">>),
                          <<"<">> \o Debug(subject) \o <<">">>)
             IN  Raises(self, b, fail(b))
        ELSE Returns(self)

\* A variant of is_equal_to with expected and actual swapped.
is_equal_to_swapped(self, expected) ==
    LET subject == self.subject
    IN  IF ~eq(subject, expected)
        THEN LET b == with_actual(
                          with_expected(from_spec(self),
                                        <<"<">> \o Debug(subject) \o <<">">>),
                          <<"<">> \o Debug(expected) \o <<">">>)
             IN  Raises(self, b, fail(b))
        ELSE Returns(self)

\* Spec::is_equal_to
is_equal_to(self, expected) ==
    LET subject == self.subject
    IN  IF ~eq(subject, expected)
        THEN LET b == with_actual(
                          with_expected(from_spec(self),
                                        <<"<">> \o Debug(expected) \o <<">">>),
                          <<"<">> \o Debug(subject) \o <<">">>)
             IN  Raises(self, b, fail(b))
        ELSE Returns(self)

\* A variant of is_not_equal_to that compares the Debug renderings instead of
\* calling eq.
is_not_equal_to_by_debug(self, expected) ==
    LET subject == self.subject
    IN  IF Debug(subject) = Debug(expected)
        THEN LET b == with_actual(
                          with_expected(from_spec(self),
                                        <<"<">> \o Debug(subject) \o <<">", " to not equal ", "<">>
                                            \o Debug(expected) \o <<">">>),
                          <<"equal">>)
             IN  Raises(self, b, fail(b))
        ELSE Returns(self)

\* A variant of is_not_equal_to that builds the failure and leaves out the
\* call of fail().
is_not_equal_to_without_fail(self, expected) ==
    LET subject == self.subject
    IN  IF eq(subject, expected)
        THEN LET b == with_actual(
                          with_expected(from_spec(self),
                                        <<"<">> \o Debug(subject) \o <<">", " to not equal ", "<">>
                                            \o Debug(expected) \o <<">">>),
                          <<"equal">>)
             IN  [failure |-> Some(b), panic |-> None, self |-> self]
        ELSE Returns(self)

\* Spec::is_not_equal_to
is_not_equal_to(self, expected) ==
    LET subject == self.subject
    IN  IF eq(subject, expected)
        THEN LET b == with_actual(
                          with_expected(from_spec(self),
                                        <<"<">> \o Debug(subject) \o <<">", " to not equal ", "<">>
                                            \o Debug(expected) \o <<">">>),
                          <<"equal">>)
             IN  Raises(self, b, fail(b))
        ELSE Returns(self)

\* A variant of matches that reports through expected/actual and fail().
matches_with_expected(self, matching_function) ==
    LET subject == self.subject
    IN  IF ~Call(matching_function, subject)
        THEN LET b == with_actual(
                          with_expected(from_spec(self), <<"value to match">>),
                          <<"<">> \o Debug(subject) \o <<">">>)
             IN  Raises(self, b, fail(b))
        ELSE Returns(self)

\* Spec::matches
matches(self, matching_function) ==
    LET subject == self.subject
    IN  IF ~Call(matching_function, subject)
        THEN LET b == from_spec(self)
             IN  Raises(self, b, fail_with_message(b,
                     <<"expectation failed for value ", "<">> \o Debug(subject) \o <<">">>))
        ELSE Returns(self)

\* A variant of map that keeps the subject instead of mapping it.
map_keeps_subject(self, mapping_function) ==
    [subject |-> self.subject,
     subject_name |-> self.subject_name,
     location |-> self.location,
     description |-> self.description]

\* A variant of map that does not carry the location over.
map_drops_location(self, mapping_function) ==
    [subject |-> Apply(mapping_function, self.subject),
     subject_name |-> self.subject_name,
     location |-> None,
     description |-> self.description]

\* Spec::map
map(self, mapping_function) ==
    [subject |-> Apply(mapping_function, self.subject),
     subject_name |-> self.subject_name,
     location |-> self.location,
     description |-> self.description]

\* ------------------------------------------------------------------ option.rs

\* The Spec an unwrapping assertion returns: over val, with the metadata of self.
Unwrapped(self, val) ==
    [subject |-> val,
     subject_name |-> self.subject_name,
     location |-> self.location,
     description |-> self.description]

\* A variant of contains_value that takes any Some for the expected one.
contains_value_any_some(self, expected_value) ==
    IF self.subject.s = "Some"
    THEN Returns(self)
    ELSE LET b == with_actual(
                      with_expected(from_spec(self),
                                    <<"option", "<">> \o Debug(expected_value) \o <<">">>),
                      <<"option[none]">>)
         IN  Raises(self, b, fail(b))

\* ContainingOptionAssertions::contains_value
contains_value(self, expected_value) ==
    IF self.subject.s = "Some"
    THEN LET val == self.subject.inner[1]
         IN  IF ~eq(val, expected_value)
             THEN LET b == with_actual(
                               with_expected(from_spec(self),
                                             <<"option to contain ", "<">>
                                                 \o Debug(expected_value) \o <<">">>),
                               <<"<">> \o Debug(val) \o <<">">>)
                  IN  Raises(self, b, fail(b))
             ELSE Returns(self)
    ELSE LET b == with_actual(
                      with_expected(from_spec(self),
                                    <<"option", "<">> \o Debug(expected_value) \o <<">">>),
                      <<"option[none]">>)
         IN  Raises(self, b, fail(b))

\* A variant of OptionAssertions::is_some that returns a Spec without the
\* subject name of the Spec it was called on.
spec_is_some_unnamed(self) ==
    IF self.subject.s = "Some"
    THEN Unwraps(self, [Unwrapped(self, self.subject.inner[1]) EXCEPT !.subject_name = None])
    ELSE LET b == with_actual(with_expected(from_spec(self), <<"option[some]">>),
                              <<"option[none]">>)
         IN  Raises(self, b, fail(b))

\* OptionAssertions::is_some
spec_is_some(self) ==
    IF self.subject.s = "Some"
    THEN Unwraps(self, Unwrapped(self, self.subject.inner[1]))
    ELSE LET b == with_actual(with_expected(from_spec(self), <<"option[some]">>),
                              <<"option[none]">>)
         IN  Raises(self, b, fail(b))

\* A variant of OptionAssertions::is_none that takes Some for None.
is_none_on_some(self) ==
    IF self.subject.s = "Some"
    THEN Returns(self)
    ELSE LET b == with_actual(with_expected(from_spec(self), <<"option[none]">>),
                              <<"option", "<">> \o <<"None">> \o <<">">>)
         IN  Raises(self, b, fail(b))

\* OptionAssertions::is_none
is_none(self) ==
    IF self.subject.s = "None"
    THEN Returns(self)
    ELSE LET b == with_actual(with_expected(from_spec(self), <<"option[none]">>),
                              <<"option", "<">> \o Debug(self.subject.inner[1]) \o <<">">>)
         IN  Raises(self, b, fail(b))

\* ------------------------------------------------------------------ result.rs

\* fn build_detail_message
build_detail_message(variant, value) ==
    <<"Result[", variant, "] containing ", "<">> \o Debug(value) \o <<">">>

\* The failure of is_ok_containing and is_err_containing.
DetailFailure(self, wanted, expected_value, found, val) ==
    LET b == with_actual(
                 with_expected(from_spec(self), build_detail_message(wanted, expected_value)),
                 build_detail_message(found, val))
    IN  Raises(self, b, fail(b))

\* A variant of is_ok_containing that compares the value of either variant.
is_ok_containing_either(self, expected_value) ==
    LET val == self.subject.inner[1]
    IN  IF ~eq(val, expected_value)
        THEN DetailFailure(self, "ok", expected_value, "ok", val)
        ELSE Returns(self)

\* ContainingResultAssertions::is_ok_containing
is_ok_containing(self, expected_value) ==
    LET val == self.subject.inner[1]
    IN  IF self.subject.s = "Ok"
        THEN IF ~eq(val, expected_value)
             THEN DetailFailure(self, "ok", expected_value, "ok", val)
             ELSE Returns(self)
        ELSE DetailFailure(self, "ok", expected_value, "err", val)

\* ContainingResultAssertions::is_err_containing
is_err_containing(self, expected_value) ==
    LET val == self.subject.inner[1]
    IN  IF self.subject.s = "Err"
        THEN IF ~eq(val, expected_value)
             THEN DetailFailure(self, "err", expected_value, "err", val)
             ELSE Returns(self)
        ELSE DetailFailure(self, "err", expected_value, "ok", val)

\* ResultAssertions::is_ok
is_ok(self) ==
    IF self.subject.s = "Ok"
    THEN Unwraps(self, Unwrapped(self, self.subject.inner[1]))
    ELSE LET b == with_actual(
                      with_expected(from_spec(self), <<"result[ok]">>),
                      <<"result[error]", "<">> \o Debug(self.subject.inner[1]) \o <<">">>)
         IN  Raises(self, b, fail(b))

\* A variant of is_error that takes the location out of the Spec it is called
\* on instead of cloning it.
is_error_takes_location(self) ==
    IF self.subject.s = "Err"
    THEN Unwraps([self EXCEPT !.location = None],
                 Unwrapped(self, self.subject.inner[1]))
    ELSE LET b == with_actual(
                      with_expected(from_spec(self), <<"result[error]">>),
                      <<"result[ok]", "<">> \o Debug(self.subject.inner[1]) \o <<">">>)
         IN  Raises(self, b, fail(b))

\* ResultAssertions::is_error
is_error(self) ==
    IF self.subject.s = "Err"
    THEN Unwraps(self, Unwrapped(self, self.subject.inner[1]))
    ELSE LET b == with_actual(
                      with_expected(from_spec(self), <<"result[error]">>),
                      <<"result[ok]", "<">> \o Debug(self.subject.inner[1]) \o <<">">>)
         IN  Raises(self, b, fail(b))

\* ------------------------------------------------------------------ hashmap.rs

\* HashMap::get
get(m, k) ==
    IF \E i \in 1..Len(m.inner) : eq(m.inner[i].inner[1], k)
    THEN Some(m.inner[CHOOSE i \in 1..Len(m.inner) : eq(m.inner[i].inner[1], k)].inner[2])
    ELSE None

\* HashMap::keys().collect()
keys(m) == [i \in 1..Len(m.inner) |-> m.inner[i].inner[1]]

\* HashMapAssertions::contains_key
contains_key(self, expected_key) ==
    LET subject == self.subject
    IN  IF is_some(get(subject, expected_key))
        THEN Unwraps(self, Unwrapped(self, unwrap(get(subject, expected_key))))
        ELSE LET subject_keys == keys(subject)
                 b == with_actual(
                          with_expected(from_spec(self),
                                        <<"hashmap to contain key ", "<">>
                                            \o Debug(expected_key) \o <<">">>),
                          <<"<">> \o DebugVec(subject_keys) \o <<">">>)
             IN  Raises(self, b, fail(b))

\* HashMapAssertions::contains_entry
contains_entry(self, expected_key, expected_value) ==
    LET subject == self.subject
        expected_message ==
            <<"hashmap containing key ", "<">> \o Debug(expected_key)
                \o <<">", " with value ", "<">> \o Debug(expected_value) \o <<">">>
    IN  IF is_some(get(subject, expected_key))
        THEN LET value == unwrap(get(subject, expected_key))
             IN  IF eq(value, expected_value)
                 THEN Returns(self)
                 ELSE LET b == with_actual(
                                   with_expected(from_spec(self), expected_message),
                                   <<"key ", "<">> \o Debug(expected_key)
                                       \o <<">", " with value ", "<">> \o Debug(value)
                                       \o <<">", " instead">>)
                      IN  Raises(self, b, fail(b))
        ELSE LET subject_keys == keys(subject)
                 b == with_actual(
                          with_expected(from_spec(self), expected_message),
                          <<"no matching key, keys are ", "<">> \o DebugVec(subject_keys)
                              \o <<">">>)
             IN  Raises(self, b, fail(b))

\* The failure of does_not_contain_entry.
EntryPresent(self, expected_key, expected_value) ==
    LET b == with_actual(
                 with_expected(from_spec(self),
                               <<"hashmap to not contain key ", "<">> \o Debug(expected_key)
                                   \o <<">", " with value ", "<">> \o Debug(expected_value)
                                   \o <<">">>),
                 <<"present in hashmap">>)
    IN  Raises(self, b, fail(b))

\* A variant of does_not_contain_entry that looks at the key alone.
does_not_contain_entry_by_key(self, expected_key, expected_value) ==
    IF is_some(get(self.subject, expected_key))
    THEN EntryPresent(self, expected_key, expected_value)
    ELSE Returns(self)

\* HashMapAssertions::does_not_contain_entry
does_not_contain_entry(self, expected_key, expected_value) ==
    LET subject == self.subject
    IN  IF is_some(get(subject, expected_key))
        THEN LET value == unwrap(get(subject, expected_key))
             IN  IF ~eq(value, expected_value)
                 THEN Returns(self)
                 ELSE EntryPresent(self, expected_key, expected_value)
        ELSE Returns(self)

\* ------------------------------------------------------------------ iter.rs

\* fn panic_unmatched: actual is the Vec of the items gone through.
panic_unmatched(self, expected, actual) ==
    LET b == with_actual(
                 with_expected(from_spec(self),
                               <<"iterator to contain ", "<">> \o Debug(expected) \o <<">">>),
                 <<"<">> \o DebugVec(actual) \o <<">">>)
    IN  Raises(self, b, fail(b))

\* The loop of check_iterator_contains, with the items it has pushed so far.
RECURSIVE check_iterator_loop(_, _, _, _)
check_iterator_loop(self, actual_iter, expected_value, actual) ==
    IF Len(actual_iter) = 0
    THEN panic_unmatched(self, expected_value, actual)
    ELSE LET x == Head(actual_iter)
         IN  IF eq(expected_value, x)
             THEN Returns(self)
             ELSE check_iterator_loop(self, Tail(actual_iter), expected_value,
                                      Append(actual, x))

\* A variant of check_iterator_contains that starts the list of items afresh
\* at every item.
check_iterator_contains_last_item(self, actual_iter, expected_value) ==
    IF \E i \in 1..Len(actual_iter) : eq(expected_value, actual_iter[i])
    THEN Returns(self)
    ELSE panic_unmatched(self, expected_value,
                         IF Len(actual_iter) = 0 THEN <<>>
                         ELSE <<actual_iter[Len(actual_iter)]>>)

\* fn check_iterator_contains
check_iterator_contains(self, actual_iter, expected_value) ==
    check_iterator_loop(self, actual_iter, expected_value, <<>>)

\* ContainingIntoIterAssertions::contains, ContainingIteratorAssertions::contains
contains(self, expected_value) ==
    LET subject_iter == self.subject.inner
    IN  check_iterator_contains(self, subject_iter, expected_value)

\* The texts of compare_iterators.
ItemRead(item, read, close) ==
    <<"Iterator item of ", "<">> \o Debug(item) \o <<">", " (read ", "<">>
        \o DebugVec(read) \o <<">">> \o close

Completed(read, close) ==
    <<"Completed iterator (read ", "<">> \o DebugVec(read) \o <<">">> \o close

IterFailure(self, expected, actual) ==
    LET b == with_actual(with_expected(from_spec(self), expected), actual)
    IN  Raises(self, b, fail(b))

\* The loop of compare_iterators, with the items read so far on either side.
RECURSIVE compare_loop(_, _, _, _, _)
compare_loop(self, actual_iter, expected_iter, read_subject, read_expected) ==
    IF Len(actual_iter) > 0 /\ Len(expected_iter) > 0
    THEN LET actual == Head(actual_iter)
             expected == Head(expected_iter)
         IN  IF ~eq(actual, expected)
             THEN IterFailure(self, ItemRead(expected, read_expected, <<")">>),
                              ItemRead(actual, read_subject, <<")">>))
             ELSE compare_loop(self, Tail(actual_iter), Tail(expected_iter),
                               Append(read_subject, actual),
                               Append(read_expected, expected))
    ELSE IF Len(actual_iter) > 0
    THEN IterFailure(self, Completed(read_expected, <<")">>),
                     ItemRead(Head(actual_iter), read_subject, <<>>))
    ELSE IF Len(expected_iter) > 0
    THEN IterFailure(self, ItemRead(Head(expected_iter), read_expected, <<>>),
                     Completed(read_subject, <<>>))
    ELSE Returns(self)

\* A variant of compare_iterators that stops where the expected iterator ends.
compare_iterators_up_to_expected(self, actual_iter, expected_iter) ==
    compare_loop(self,
                 SubSeq(actual_iter, 1,
                        IF Len(actual_iter) < Len(expected_iter)
                        THEN Len(actual_iter) ELSE Len(expected_iter)),
                 expected_iter, <<>>, <<>>)

\* fn compare_iterators
compare_iterators(self, actual_iter, expected_iter) ==
    compare_loop(self, actual_iter, expected_iter, <<>>, <<>>)

\* ContainingIntoIterAssertions::equals_iterator,
\* ContainingIteratorAssertions::equals_iterator
equals_iterator(self, expected_iter) ==
    compare_iterators(self, self.subject.inner, expected_iter.inner)

\* subject.into_iter().map(mapping_function).collect()
Collect(items, mapping_function) ==
    [i \in 1..Len(items) |-> Apply(mapping_function, items[i])]

\* A variant of mapped_contains that reports the items of the subject.
mapped_contains_reports_subject(self, mapping_function, expected_value) ==
    LET subject == self.subject
        mapped_vec == Collect(subject.inner, mapping_function)
    IN  IF \E i \in 1..Len(mapped_vec) : eq(mapped_vec[i], expected_value)
        THEN Returns(self)
        ELSE panic_unmatched(self, expected_value, subject.inner)

\* MappingIterAssertions::mapped_contains
mapped_contains(self, mapping_function, expected_value) ==
    LET subject == self.subject
        mapped_vec == Collect(subject.inner, mapping_function)
    IN  IF \E i \in 1..Len(mapped_vec) : eq(mapped_vec[i], expected_value)
        THEN Returns(self)
        ELSE panic_unmatched(self, expected_value, mapped_vec)

\* ------------------------------------------------------------------ numeric.rs

\* The failure every ordered assertion builds.
OrderedFailure(self, wanted, other) ==
    LET b == with_actual(
                 with_expected(from_spec(self),
                               <<wanted, "<">> \o Debug(other) \o <<">">>),
                 <<"<">> \o Debug(self.subject) \o <<">">>)
    IN  Raises(self, b, fail(b))

\* OrderedAssertions::is_less_than
is_less_than(self, other) ==
    IF ge(self.subject, other)
    THEN OrderedFailure(self, "value less than ", other)
    ELSE Returns(self)

\* OrderedAssertions::is_less_than_or_equal_to
is_less_than_or_equal_to(self, other) ==
    IF gt(self.subject, other)
    THEN OrderedFailure(self, "value less than or equal to ", other)
    ELSE Returns(self)

\* A variant of is_greater_than that takes the location out of the Spec.
is_greater_than_takes_location(self, other) ==
    IF le(self.subject, other)
    THEN OrderedFailure(self, "value greater than ", other)
    ELSE Returns([self EXCEPT !.location = None])

\* OrderedAssertions::is_greater_than
is_greater_than(self, other) ==
    IF le(self.subject, other)
    THEN OrderedFailure(self, "value greater than ", other)
    ELSE Returns(self)

\* OrderedAssertions::is_greater_than_or_equal_to
is_greater_than_or_equal_to(self, other) ==
    IF lt(self.subject, other)
    THEN OrderedFailure(self, "value greater than or equal to ", other)
    ELSE Returns(self)

\* ------------------------------------------------------------------ the chain

NoOp == [op |-> "none", arg |-> "", pre |-> None]

Did(op, arg, pre) == [op |-> op, arg |-> arg, pre |-> pre]

Init ==
    /\ colours \in BOOLEAN
    /\ pc = "start"
    /\ desc = None
    /\ spec = None
    /\ failure = None
    /\ panic = None
    /\ last = NoOp
    /\ prev = NoOp
    /\ outer = None
    /\ written = [description |-> None, subject_name |-> None, location |-> None,
                  late |-> FALSE]

\* assert_that(&subject)
AssertThat ==
    \E subject \in Values :
        /\ pc = "start"
        /\ spec' = Some(assert_that(subject))
        /\ pc' = "spec"
        /\ last' = Did("assert_that", subject, None)
        /\ prev' = last
        /\ UNCHANGED <<colours, outer, desc, failure, panic, written>>

\* asserting(&description)
Asserting ==
    \E description \in Descriptions :
        /\ pc = "start"
        /\ desc' = Some(asserting(description))
        /\ pc' = "described"
        /\ last' = Did("asserting", description, None)
        /\ prev' = last
        /\ written' = [written EXCEPT !.description = Some(description)]
        /\ UNCHANGED <<colours, outer, spec, failure, panic>>

\* SpecDescription::at_location(location)
DescAtLocation ==
    \E location \in Locations :
        /\ pc = "described"
        /\ desc' = Some(desc_at_location(unwrap(desc), location))
        /\ last' = Did("desc_at_location", location, desc)
        /\ prev' = last
        /\ written' = [written EXCEPT !.location = Some(location)]
        /\ UNCHANGED <<colours, outer, pc, spec, failure, panic>>

\* SpecDescription::that(&subject): consumes the description.
That ==
    \E subject \in Values :
        /\ pc = "described"
        /\ spec' = Some(that(unwrap(desc), subject))
        /\ desc' = None
        /\ pc' = "spec"
        /\ last' = Did("that", subject, desc)
        /\ prev' = last
        /\ UNCHANGED <<colours, outer, failure, panic, written>>

\* A check that returns a new Spec, called on a Spec held in a variable: the
\* Spec it was called on stays in use beside the one returned.
CheckUnwrapBound(op, arg, outcome) ==
    /\ failure' = outcome.failure
    /\ panic' = outcome.panic
    /\ pc' = IF is_some(outcome.panic) THEN "panicked" ELSE "spec"
    /\ spec' = IF is_some(outcome.panic) THEN Some(outcome.self) ELSE Some(outcome.ret)
    /\ outer' = IF is_some(outcome.panic) THEN outer ELSE Some(outcome.self)
    /\ last' = Did(op, arg, spec)
    /\ prev' = last
    /\ UNCHANGED <<colours, desc, written>>

\* let mut returned = original.is_some()
BoundIsSome ==
    /\ pc = "spec"
    /\ outer = None
    /\ unwrap(spec).subject.ty = "option"
    /\ CheckUnwrapBound("is_some", "", spec_is_some(unwrap(spec)))

\* let mut returned = original.is_ok()
BoundIsOk ==
    /\ pc = "spec"
    /\ outer = None
    /\ unwrap(spec).subject.ty = "result"
    /\ CheckUnwrapBound("is_ok", "", is_ok(unwrap(spec)))

\* let mut returned = original.is_error()
BoundIsError ==
    /\ pc = "spec"
    /\ outer = None
    /\ unwrap(spec).subject.ty = "result"
    /\ CheckUnwrapBound("is_error", "", is_error(unwrap(spec)))

\* let mut returned = original.contains_key(expected_key)
BoundContainsKey ==
    \E expected_key \in Keys :
        /\ pc = "spec"
        /\ outer = None
        /\ unwrap(spec).subject.ty = "hashmap"
        /\ CheckUnwrapBound("contains_key", expected_key,
                            contains_key(unwrap(spec), expected_key))

\* Spec::at_location(location) on the Spec an unwrapping assertion was called on
OuterAtLocation ==
    \E location \in Locations :
        /\ pc = "spec"
        /\ is_some(outer)
        /\ outer' = Some(at_location(unwrap(outer), location))
        /\ last' = Did("outer.at_location", location, outer)
        /\ prev' = last
        /\ UNCHANGED <<colours, pc, desc, spec, failure, panic, written>>

\* Spec::named(subject_name) on the Spec an unwrapping assertion was called on
OuterNamed ==
    \E subject_name \in SubjectNames :
        /\ pc = "spec"
        /\ is_some(outer)
        /\ outer' = Some(named(unwrap(outer), subject_name))
        /\ last' = Did("outer.named", subject_name, outer)
        /\ prev' = last
        /\ UNCHANGED <<colours, pc, desc, spec, failure, panic, written>>

\* The checks that hand &mut Self back: the chain goes on only if they passed.
Chained == {"is_equal_to", "is_not_equal_to", "contains", "equals_iterator",
            "mapped_contains"}

\* Spec::at_location(location)
AtLocation ==
    \E location \in Locations :
        /\ pc = "spec"
        /\ spec' = Some(at_location(unwrap(spec), location))
        /\ last' = Did("at_location", location, spec)
        /\ prev' = last
        /\ written' = [written EXCEPT !.location = Some(location),
                                      !.late = @ \/ last.op \in Chained]
        /\ UNCHANGED <<colours, outer, pc, desc, failure, panic>>

\* Spec::named(subject_name)
Named ==
    \E subject_name \in SubjectNames :
        /\ pc = "spec"
        /\ spec' = Some(named(unwrap(spec), subject_name))
        /\ last' = Did("named", subject_name, spec)
        /\ prev' = last
        /\ written' = [written EXCEPT !.subject_name = Some(subject_name),
                                      !.late = @ \/ last.op \in Chained]
        /\ UNCHANGED <<colours, outer, pc, desc, failure, panic>>

\* A check on the Spec that hands &mut Self back when it returns.
Check(op, arg, outcome) ==
    /\ failure' = outcome.failure
    /\ panic' = outcome.panic
    /\ pc' = IF is_some(outcome.panic) THEN "panicked" ELSE "spec"
    /\ spec' = Some(outcome.self)
    /\ last' = Did(op, arg, spec)
    /\ prev' = last
    /\ UNCHANGED <<colours, outer, desc, written>>

\* Spec::is_equal_to(&expected)
IsEqualTo ==
    \E expected \in Values :
        /\ pc = "spec"
        /\ expected \in SameType(unwrap(spec).subject)
        /\ Check("is_equal_to", expected, is_equal_to(unwrap(spec), expected))

\* Spec::is_not_equal_to(&expected)
IsNotEqualTo ==
    \E expected \in Values :
        /\ pc = "spec"
        /\ expected \in SameType(unwrap(spec).subject)
        /\ Check("is_not_equal_to", expected, is_not_equal_to(unwrap(spec), expected))

\* Spec::matches(matching_function): returns (), which ends the chain.
Matches ==
    \E matching_function \in Predicates :
        /\ pc = "spec"
        /\ LET outcome == matches(unwrap(spec), matching_function)
           IN  /\ failure' = outcome.failure
               /\ panic' = outcome.panic
               /\ pc' = IF is_some(outcome.panic) THEN "panicked" ELSE "done"
               /\ spec' = Some(outcome.self)
        /\ last' = Did("matches", matching_function, spec)
        /\ prev' = last
        /\ UNCHANGED <<colours, outer, desc, written>>

\* Spec::map(mapping_function): consumes the Spec and returns a new one.
Map ==
    \E mapping_function \in MappingFunctions :
        /\ pc = "spec"
        /\ Applicable(mapping_function, unwrap(spec).subject)
        /\ spec' = Some(map(unwrap(spec), mapping_function))
        /\ last' = Did("map", mapping_function, spec)
        /\ prev' = last
        /\ UNCHANGED <<colours, outer, pc, desc, failure, panic, written>>

\* A check on the Spec that returns (), which ends the chain.
CheckUnit(op, arg, outcome) ==
    /\ failure' = outcome.failure
    /\ panic' = outcome.panic
    /\ pc' = IF is_some(outcome.panic) THEN "panicked" ELSE "done"
    /\ spec' = Some(outcome.self)
    /\ last' = Did(op, arg, spec)
    /\ prev' = last
    /\ UNCHANGED <<colours, outer, desc, written>>

\* A check on the Spec that returns a new Spec, on which the chain goes on:
\* the Spec it was called on is a temporary of the chain and is dropped.
CheckUnwrap(op, arg, outcome) ==
    /\ failure' = outcome.failure
    /\ panic' = outcome.panic
    /\ pc' = IF is_some(outcome.panic) THEN "panicked" ELSE "spec"
    /\ spec' = IF is_some(outcome.panic) THEN Some(outcome.self) ELSE Some(outcome.ret)
    /\ last' = Did(op, arg, spec)
    /\ prev' = last
    /\ UNCHANGED <<colours, outer, desc, written>>

\* OptionAssertions::is_some()
IsSome ==
    /\ pc = "spec"
    /\ unwrap(spec).subject.ty = "option"
    /\ CheckUnwrap("is_some", "", spec_is_some(unwrap(spec)))

\* OptionAssertions::is_none()
IsNone ==
    /\ pc = "spec"
    /\ unwrap(spec).subject.ty = "option"
    /\ CheckUnit("is_none", "", is_none(unwrap(spec)))

\* ContainingOptionAssertions::contains_value(expected_value)
ContainsValue ==
    \E expected_value \in Strs :
        /\ pc = "spec"
        /\ unwrap(spec).subject.ty = "option"
        /\ CheckUnit("contains_value", expected_value,
                     contains_value(unwrap(spec), expected_value))

\* ResultAssertions::is_ok()
IsOk ==
    /\ pc = "spec"
    /\ unwrap(spec).subject.ty = "result"
    /\ CheckUnwrap("is_ok", "", is_ok(unwrap(spec)))

\* ContainingResultAssertions::is_ok_containing(expected_value)
IsOkContaining ==
    \E expected_value \in Contents :
        /\ pc = "spec"
        /\ unwrap(spec).subject.ty = "result"
        /\ CheckUnit("is_ok_containing", expected_value,
                     is_ok_containing(unwrap(spec), expected_value))

\* ContainingResultAssertions::is_err_containing(expected_value)
IsErrContaining ==
    \E expected_value \in Contents :
        /\ pc = "spec"
        /\ unwrap(spec).subject.ty = "result"
        /\ CheckUnit("is_err_containing", expected_value,
                     is_err_containing(unwrap(spec), expected_value))

\* ResultAssertions::is_error()
IsError ==
    /\ pc = "spec"
    /\ unwrap(spec).subject.ty = "result"
    /\ CheckUnwrap("is_error", "", is_error(unwrap(spec)))

\* HashMapAssertions::contains_key(expected_key)
ContainsKey ==
    \E expected_key \in Keys :
        /\ pc = "spec"
        /\ unwrap(spec).subject.ty = "hashmap"
        /\ CheckUnwrap("contains_key", expected_key,
                       contains_key(unwrap(spec), expected_key))

\* HashMapAssertions::contains_entry(expected_key, expected_value)
ContainsEntry ==
    \E expected_key \in Keys, expected_value \in Strs :
        /\ pc = "spec"
        /\ unwrap(spec).subject.ty = "hashmap"
        /\ CheckUnit("contains_entry", <<expected_key, expected_value>>,
                     contains_entry(unwrap(spec), expected_key, expected_value))

\* HashMapAssertions::does_not_contain_entry(expected_key, expected_value)
DoesNotContainEntry ==
    \E expected_key \in Keys, expected_value \in Strs :
        /\ pc = "spec"
        /\ unwrap(spec).subject.ty = "hashmap"
        /\ CheckUnit("does_not_contain_entry", <<expected_key, expected_value>>,
                     does_not_contain_entry(unwrap(spec), expected_key, expected_value))

\* assert_that(&subject) on an iterable subject
AssertThatVec ==
    \E subject \in Vecs :
        /\ pc = "start"
        /\ spec' = Some(assert_that(subject))
        /\ pc' = "spec"
        /\ last' = Did("assert_that", subject, None)
        /\ prev' = last
        /\ UNCHANGED <<colours, outer, desc, failure, panic, written>>

\* SpecDescription::that(&subject) on an iterable subject
ThatVec ==
    \E subject \in Vecs :
        /\ pc = "described"
        /\ spec' = Some(that(unwrap(desc), subject))
        /\ desc' = None
        /\ pc' = "spec"
        /\ last' = Did("that", subject, desc)
        /\ prev' = last
        /\ UNCHANGED <<colours, outer, failure, panic, written>>

\* contains(&expected_value) on an iterable subject
ContainsItem ==
    \E expected_value \in Probes("i32") \cup Probes("TestStruct") :
        /\ pc = "spec"
        /\ unwrap(spec).subject.ty \in VecTypes
        /\ expected_value.ty = Item(unwrap(spec).subject.ty)
        /\ Check("contains", expected_value, contains(unwrap(spec), expected_value))

\* equals_iterator(&expected_iter) on an iterable subject
EqualsIterator ==
    \E expected_iter \in Vecs :
        /\ pc = "spec"
        /\ unwrap(spec).subject.ty \in VecTypes
        /\ expected_iter.ty = unwrap(spec).subject.ty
        /\ Check("equals_iterator", expected_iter,
                 equals_iterator(unwrap(spec), expected_iter))

\* mapped_contains(mapping_function, &expected_value) on an iterable subject
MappedContains ==
    \E mapping_function \in MappingFunctions,
       expected_value \in Probes("i32") \cup Probes("u8") \cup Probes("TestStruct") :
        /\ pc = "spec"
        /\ unwrap(spec).subject.ty \in VecTypes
        /\ mapping_function = "value" => Item(unwrap(spec).subject.ty) = "TestStruct"
        /\ expected_value.ty = (IF mapping_function = "value" THEN "u8"
                                ELSE Item(unwrap(spec).subject.ty))
        /\ Check("mapped_contains", <<mapping_function, expected_value>>,
                 mapped_contains(unwrap(spec), mapping_function, expected_value))

\* OrderedAssertions::is_less_than(other)
IsLessThan ==
    \E other \in Values :
        /\ pc = "spec"
        /\ Ordered(unwrap(spec).subject)
        /\ other \in SameType(unwrap(spec).subject)
        /\ CheckUnit("is_less_than", other, is_less_than(unwrap(spec), other))

\* OrderedAssertions::is_less_than_or_equal_to(other)
IsLessThanOrEqualTo ==
    \E other \in Values :
        /\ pc = "spec"
        /\ Ordered(unwrap(spec).subject)
        /\ other \in SameType(unwrap(spec).subject)
        /\ CheckUnit("is_less_than_or_equal_to", other,
                     is_less_than_or_equal_to(unwrap(spec), other))

\* OrderedAssertions::is_greater_than(other)
IsGreaterThan ==
    \E other \in Values :
        /\ pc = "spec"
        /\ Ordered(unwrap(spec).subject)
        /\ other \in SameType(unwrap(spec).subject)
        /\ CheckUnit("is_greater_than", other, is_greater_than(unwrap(spec), other))

\* OrderedAssertions::is_greater_than_or_equal_to(other)
IsGreaterThanOrEqualTo ==
    \E other \in Values :
        /\ pc = "spec"
        /\ Ordered(unwrap(spec).subject)
        /\ other \in SameType(unwrap(spec).subject)
        /\ CheckUnit("is_greater_than_or_equal_to", other,
                     is_greater_than_or_equal_to(unwrap(spec), other))

\* AssertionFailure::from_spec(&spec), as an extension on Option subjects
\* calls it before it sets the texts itself.
FromSpec ==
    /\ pc = "spec"
    /\ unwrap(spec).subject.ty = "option"
    /\ failure' = Some(from_spec(unwrap(spec)))
    /\ pc' = "building"
    /\ last' = Did("from_spec", "", spec)
    /\ prev' = last
    /\ UNCHANGED <<colours, outer, desc, spec, panic, written>>

\* AssertionFailure::with_expected(expected)
WithExpected ==
    \E expected \in Texts :
        /\ pc = "building"
        /\ failure' = Some(with_expected(unwrap(failure), expected))
        /\ last' = Did("with_expected", expected, failure)
        /\ prev' = last
        /\ UNCHANGED <<colours, outer, pc, desc, spec, panic, written>>

\* AssertionFailure::with_actual(actual)
WithActual ==
    \E actual \in Texts :
        /\ pc = "building"
        /\ failure' = Some(with_actual(unwrap(failure), actual))
        /\ last' = Did("with_actual", actual, failure)
        /\ prev' = last
        /\ UNCHANGED <<colours, outer, pc, desc, spec, panic, written>>

\* AssertionFailure::fail()
Fail ==
    /\ pc = "building"
    /\ panic' = Some(fail(unwrap(failure)))
    /\ pc' = "panicked"
    /\ last' = Did("fail", "", failure)
    /\ prev' = last
    /\ UNCHANGED <<colours, outer, desc, spec, failure, written>>

\* AssertionFailure::fail_with_message(message)
FailWithMessage ==
    \E message \in Messages :
        /\ pc = "building"
        /\ panic' = Some(fail_with_message(unwrap(failure), message))
        /\ pc' = "panicked"
        /\ last' = Did("fail_with_message", message, failure)
        /\ prev' = last
        /\ UNCHANGED <<colours, outer, desc, spec, failure, written>>

Next ==
    \/ AssertThat
    \/ Asserting
    \/ DescAtLocation
    \/ That
    \/ AtLocation
    \/ Named
    \/ IsEqualTo
    \/ IsNotEqualTo
    \/ Matches
    \/ Map
    \/ IsSome
    \/ IsNone
    \/ ContainsValue
    \/ IsOk
    \/ IsOkContaining
    \/ IsErrContaining
    \/ IsError
    \/ ContainsKey
    \/ ContainsEntry
    \/ DoesNotContainEntry
    \/ IsLessThan
    \/ IsLessThanOrEqualTo
    \/ IsGreaterThan
    \/ IsGreaterThanOrEqualTo
    \/ FromSpec
    \/ WithExpected
    \/ WithActual
    \/ Fail
    \/ FailWithMessage

Spec == Init /\ [][Next]_vars

\* The chains on an iterable subject: the assertions of iter.rs.
IterNext ==
    \/ AssertThatVec
    \/ Asserting
    \/ ThatVec
    \/ AtLocation
    \/ Named
    \/ ContainsItem
    \/ EqualsIterator
    \/ MappedContains

IterSpec == Init /\ [][IterNext]_vars

\* The chains in which the Spec an unwrapping assertion was called on stays in
\* use beside the Spec it returned.
UnwrapNext ==
    \/ AssertThat
    \/ AtLocation
    \/ Named
    \/ BoundIsSome
    \/ BoundIsOk
    \/ BoundIsError
    \/ BoundContainsKey
    \/ OuterAtLocation
    \/ OuterNamed

UnwrapSpec == Init /\ [][UnwrapNext]_vars

\* ------------------------------------------------------------------ text

\* Where sub starts in text at or after position from; 0 when it does not occur.
RECURSIVE Find(_, _, _)
Find(text, sub, from) ==
    IF from + Len(sub) - 1 > Len(text) THEN 0
    ELSE IF SubSeq(text, from, from + Len(sub) - 1) = sub THEN from
    ELSE Find(text, sub, from + 1)

Contains(text, sub) == Find(text, sub, 1) > 0

\* text without the first occurrence of seg (text itself when seg is not in it).
Cut(text, seg) ==
    LET i == Find(text, seg, 1)
    IN  IF i = 0 \/ Len(seg) = 0 THEN text
        ELSE SubSeq(text, 1, i - 1) \o SubSeq(text, i + Len(seg), Len(text))

\* Line breaks, tabs and colour codes: what a message holds besides its words.
Layout == {"\n", "\t", "\\x1B[31m", "\\x1B[1m", "\\x1B[0m"}

IsWord(token) == token \notin Layout

Words(text) == SelectSeq(text, IsWord)

\* The receiver and the argument of the operation that ran last.
Receiver == unwrap(last.pre)

Bracketed(v) == <<"<">> \o Debug(v) \o <<">">>

HasAllMetadata(s) ==
    is_some(s.description) /\ is_some(s.subject_name) /\ is_some(s.location)

\* ------------------------------------------------------------------ claims

\* C1: is_equal_to(e) on a subject s with s == e returns normally: no panic
\* is raised, whatever description, subject name or location the Spec has.
C1_EqualSubjectsDoNotRaise ==
    (last.op = "is_equal_to" /\ eq(Receiver.subject, last.arg))
        => (panic = None /\ pc = "spec" /\ failure = None)

C1_Witness ==
    /\ last.op = "is_equal_to"
    /\ eq(Receiver.subject, last.arg)
    /\ HasAllMetadata(Receiver)
    /\ panic = None

\* C2: is_equal_to(e) on a subject s with s != e raises a failure whose
\* expected text is "<" debug(e) ">" and whose actual text is "<" debug(s) ">"
\* (never swapped), and the message shows them as "expected:" and "but was:".
C2_UnequalSubjectsRaise ==
    (last.op = "is_equal_to" /\ ~eq(Receiver.subject, last.arg))
        => /\ pc = "panicked"
           /\ is_some(panic)
           /\ is_some(failure)
           /\ unwrap(failure).expected = Some(Bracketed(last.arg))
           /\ unwrap(failure).actual = Some(Bracketed(Receiver.subject))
           /\ Contains(unwrap(panic),
                       <<"expected: ">> \o Bracketed(last.arg)
                           \o <<"\n", "\t", " but was: ">>
                           \o Bracketed(Receiver.subject))

C2_Witness ==
    /\ last.op = "is_equal_to"
    /\ ~eq(Receiver.subject, last.arg)
    /\ Debug(Receiver.subject) # Debug(last.arg)
    /\ pc = "panicked"

\* C3: is_not_equal_to is the exact negation of is_equal_to: on the same
\* subject and value exactly one of the two returns normally, and when
\* is_not_equal_to raises, expected is "<s> to not equal <e>" and actual is
\* "equal".
C3_NotEqualIsNegation ==
    /\ last.op = "is_equal_to"
           => (panic = None <=> is_some(is_not_equal_to(Receiver, last.arg).panic))
    /\ last.op = "is_not_equal_to"
           => /\ panic = None <=> is_some(is_equal_to(Receiver, last.arg).panic)
              /\ is_some(panic)
                     => /\ unwrap(failure).expected
                               = Some(Bracketed(Receiver.subject) \o <<" to not equal ">>
                                          \o Bracketed(last.arg))
                        /\ unwrap(failure).actual = Some(<<"equal">>)

C3_Witness ==
    /\ last.op = "is_not_equal_to"
    /\ pc = "panicked"
    /\ prev.op = "is_not_equal_to"
    /\ prev.arg # last.arg

\* The builder that raised the panic, and the Spec it refers to.
Builder == unwrap(failure)

\* The operations that raise through fail().
FailOps ==
    {"fail", "is_equal_to", "is_not_equal_to", "is_some", "is_ok", "is_error",
     "contains_key", "is_less_than", "is_less_than_or_equal_to", "is_greater_than",
     "is_greater_than_or_equal_to"}

Rendered ==
    /\ is_some(panic)
    /\ is_some(failure)
    /\ last.op \in FailOps
    /\ is_some(Builder.expected)
    /\ is_some(Builder.actual)

\* C4: a failure raised by fail() on a Spec with a description D, a subject
\* name N and a location L holds D, then N, then "expected: E" followed by
\* "but was: A", then L, in that order.
C4_MetadataOrder ==
    (Rendered /\ HasAllMetadata(Builder.spec))
        => LET msg == unwrap(panic)
               s == Builder.spec
               E == unwrap(Builder.expected)
               A == unwrap(Builder.actual)
               iD == Find(msg, <<unwrap(s.description), ":">>, 1)
               iN == IF iD = 0 THEN 0
                     ELSE Find(msg, <<"for subject [", unwrap(s.subject_name), "]">>, iD + 2)
               iE == IF iN = 0 THEN 0 ELSE Find(msg, <<"expected: ">> \o E, iN + 3)
               iA == IF iE = 0 THEN 0
                     ELSE Find(msg, <<" but was: ">> \o A, iE + 1 + Len(E))
               iL == IF iA = 0 THEN 0
                     ELSE Find(msg, <<"at location: ", unwrap(s.location)>>, iA + 1 + Len(A))
           IN  iL > 0

C4_Witness ==
    /\ Rendered
    /\ HasAllMetadata(Builder.spec)
    /\ last.op = "fail"
    /\ Builder.expected # Builder.actual

\* The Spec s with each absent field filled in.
Filled(s, d, n, l) ==
    [s EXCEPT !.description = IF is_some(@) THEN @ ELSE Some(d),
              !.subject_name = IF is_some(@) THEN @ ELSE Some(n),
              !.location = IF is_some(@) THEN @ ELSE Some(l)]

CutIf(absent, text, seg) == IF absent THEN Cut(text, seg) ELSE text

\* C5: for every subset of {description, subject name, location} that is
\* absent, the message of fail() is the message with all three present less
\* exactly the segments of the absent fields: no placeholder, delimiter or
\* blank line is left behind for an absent field.
C5_AbsentFieldsLeaveNothing ==
    Rendered
        => \A d \in Descriptions, n \in SubjectNames, l \in Locations :
               LET s == Builder.spec
                   full == [Builder EXCEPT !.spec = Filled(s, d, n, l)]
               IN  unwrap(panic)
                       = CutIf(~is_some(s.location),
                               CutIf(~is_some(s.subject_name),
                                     CutIf(~is_some(s.description),
                                           fail(full),
                                           maybe_build_description(full)),
                                     maybe_build_subject_name(full)),
                               maybe_build_location(full))

C5_Witness ==
    /\ Rendered
    /\ is_some(Builder.spec.description)
    /\ ~is_some(Builder.spec.subject_name)
    /\ ~is_some(Builder.spec.location)

\* C6: fail() on a builder whose expected or actual is not set, a builder
\* fresh from from_spec included, raises "invalid assertion"; it raises a
\* rendered message only when both are set.
C6_InvalidAssertion ==
    /\ last.op = "from_spec"
           => (Builder.expected = None /\ Builder.actual = None)
    /\ last.op = "fail"
           => /\ pc = "panicked"
              /\ is_some(panic)
              /\ IF ~is_some(Builder.expected) \/ ~is_some(Builder.actual)
                 THEN unwrap(panic) = <<"invalid assertion">>
                 ELSE /\ unwrap(panic) # <<"invalid assertion">>
                      /\ Contains(unwrap(panic),
                                  <<"expected: ">> \o unwrap(Builder.expected)
                                      \o <<"\n", "\t", " but was: ">>
                                      \o unwrap(Builder.actual))

C6_Witness ==
    /\ last.op = "fail"
    /\ is_some(Builder.expected)
    /\ ~is_some(Builder.actual)
    /\ panic = Some(<<"invalid assertion">>)

\* The words each metadata field of a Spec puts in a message.
DescriptionWords(s) ==
    IF is_some(s.description) THEN <<unwrap(s.description), ":">> ELSE <<>>

SubjectNameWords(s) ==
    IF is_some(s.subject_name)
    THEN <<"for subject [", unwrap(s.subject_name), "]">> ELSE <<>>

LocationWords(s) ==
    IF is_some(s.location) THEN <<"at location: ", unwrap(s.location)>> ELSE <<>>

\* C7: fail_with_message(text) raises whether or not expected and actual are
\* set, and its message is the description (if present), the subject name
\* (if present), the text and the location (if present), in that order, with
\* no "expected:" or "but was:" added.
C7_FailWithMessage ==
    last.op = "fail_with_message"
        => /\ pc = "panicked"
           /\ is_some(panic)
           /\ Words(unwrap(panic))
                  = DescriptionWords(Builder.spec) \o SubjectNameWords(Builder.spec)
                        \o last.arg \o LocationWords(Builder.spec)
           /\ ~Contains(unwrap(panic), <<"expected: ">>)
           /\ ~Contains(unwrap(panic), <<" but was: ">>)

C7_Witness ==
    /\ last.op = "fail_with_message"
    /\ is_some(Builder.expected)
    /\ ~is_some(Builder.actual)
    /\ HasAllMetadata(Builder.spec)
    /\ is_some(panic)

\* C8: matches(p) returns normally exactly when p(subject) holds; otherwise
\* it raises a failure that holds, besides the metadata, only the message
\* "expectation failed for value <debug(subject)>": no expected, no actual.
C8_Matches ==
    last.op = "matches"
        => /\ panic = None <=> Call(last.arg, Receiver.subject)
           /\ panic = None => (pc = "done" /\ failure = None)
           /\ is_some(panic)
                  => /\ pc = "panicked"
                     /\ Words(unwrap(panic))
                            = DescriptionWords(Receiver) \o SubjectNameWords(Receiver)
                                  \o <<"expectation failed for value ">>
                                  \o Bracketed(Receiver.subject)
                                  \o LocationWords(Receiver)
                     /\ Builder.expected = None
                     /\ Builder.actual = None

C8_Witness ==
    /\ last.op = "matches"
    /\ last.arg = "is_hello"
    /\ Receiver.subject = Str("Hi")
    /\ is_some(Receiver.subject_name)
    /\ pc = "panicked"

\* The Spec that map() consumed and the function it was given, when the
\* check that ran last ran on the Spec map() returned.
Original == unwrap(prev.pre)

\* C9: map(f).is_equal_to(e) returns normally exactly when f(s) == e, and
\* when it raises, expected and actual are those of comparing f(s) with e.
C9_MapKeepsComparison ==
    (prev.op = "map" /\ last.op = "is_equal_to")
        => LET mapped == Apply(prev.arg, Original.subject)
           IN  /\ panic = None <=> eq(mapped, last.arg)
               /\ is_some(panic)
                      => /\ Builder.expected = Some(Bracketed(last.arg))
                         /\ Builder.actual = Some(Bracketed(mapped))

C9_Witness ==
    /\ prev.op = "map"
    /\ prev.arg = "value"
    /\ last.op = "is_equal_to"
    /\ Original.subject = TestStruct(2)
    /\ last.arg = U8(1)
    /\ pc = "panicked"

IsPrefix(p, text) == Len(p) <= Len(text) /\ SubSeq(text, 1, Len(p)) = p

IsSuffix(p, text) ==
    Len(p) <= Len(text) /\ SubSeq(text, Len(text) - Len(p) + 1, Len(text)) = p

\* C10: map(f) returns a Spec with the subject_name, location and
\* description of the Spec it consumed, so a failure raised on the mapped
\* Spec carries the description, subject name and location of the original.
C10_MapKeepsMetadata ==
    /\ last.op = "map"
           => /\ unwrap(spec).subject_name = Receiver.subject_name
              /\ unwrap(spec).location = Receiver.location
              /\ unwrap(spec).description = Receiver.description
    /\ (prev.op = "map" /\ last.op \in {"is_equal_to", "is_not_equal_to", "matches"}
            /\ is_some(panic))
           => /\ IsPrefix(DescriptionWords(Original) \o SubjectNameWords(Original),
                          Words(unwrap(panic)))
              /\ IsSuffix(LocationWords(Original), Words(unwrap(panic)))
              /\ Contains(unwrap(panic), <<":">>) <=> is_some(Original.description)
              /\ Contains(unwrap(panic), <<"for subject [">>)
                     <=> is_some(Original.subject_name)
              /\ Contains(unwrap(panic), <<"at location: ">>)
                     <=> is_some(Original.location)

C10_Witness ==
    /\ prev.op = "map"
    /\ last.op = "is_equal_to"
    /\ HasAllMetadata(Original)
    /\ pc = "panicked"

\* The assertions that return a Spec over a value the subject contains.
UnwrapOps == {"is_some", "is_ok", "is_error", "contains_key"}

\* s is Some(v), Ok(v) or Err(v), or a map that holds the key: the case in
\* which the assertion op hands v on.
Holds(op, s, k) ==
    CASE op = "is_some" -> s.s = "Some"
      [] op = "is_ok" -> s.s = "Ok"
      [] op = "is_error" -> s.s = "Err"
      [] op = "contains_key" -> \E e \in Range(s.inner) : e.inner[1] = k

Contained(op, s, k) ==
    IF op = "contains_key"
    THEN (CHOOSE e \in Range(s.inner) : e.inner[1] = k).inner[2]
    ELSE s.inner[1]

\* C11: is_some on Some(v), is_ok on Ok(v), is_error on Err(v) and
\* contains_key(k) on a map that holds k return a Spec whose subject is v and
\* whose subject_name, location and description are those of the Spec the
\* assertion was called on.
C11_UnwrapKeepsMetadata ==
    (last.op \in UnwrapOps /\ Holds(last.op, Receiver.subject, last.arg))
        => /\ panic = None
           /\ pc = "spec"
           /\ unwrap(spec).subject = Contained(last.op, Receiver.subject, last.arg)
           /\ unwrap(spec).subject_name = Receiver.subject_name
           /\ unwrap(spec).location = Receiver.location
           /\ unwrap(spec).description = Receiver.description

C11_Witness ==
    /\ last.op = "contains_key"
    /\ Len(Receiver.subject.inner) = 2
    /\ last.arg = Receiver.subject.inner[2].inner[1]
    /\ HasAllMetadata(Receiver)
    /\ panic = None
    /\ unwrap(spec).subject = Receiver.subject.inner[2].inner[2]

\* A panic that carries a rendered message: any but "invalid assertion".
Reported == is_some(panic) /\ unwrap(panic) # <<"invalid assertion">>

\* C12: after any sequence of named and at_location calls only the value of
\* the last named call and of the last at_location call are in effect: a
\* later failure shows that name and that location and no other.
C12_LastWriteWins ==
    /\ last.op = "named" => unwrap(spec).subject_name = Some(last.arg)
    /\ last.op = "at_location" => unwrap(spec).location = Some(last.arg)
    /\ (Reported /\ is_some(written.subject_name))
           => /\ Contains(unwrap(panic),
                          <<"for subject [", unwrap(written.subject_name), "]">>)
              /\ \A n \in SubjectNames \ {unwrap(written.subject_name)} :
                     ~Contains(unwrap(panic), <<n>>)
    /\ (Reported /\ is_some(written.location))
           => /\ Contains(unwrap(panic), <<"at location: ", unwrap(written.location)>>)
              /\ \A l \in Locations \ {unwrap(written.location)} :
                     ~Contains(unwrap(panic), <<l>>)

C12_Witness ==
    /\ Reported
    /\ last.op = "is_equal_to"
    /\ prev.op = "named"
    /\ is_some(unwrap(prev.pre).subject_name)
    /\ unwrap(prev.pre).subject_name # Some(prev.arg)
    /\ is_some(written.location)
    /\ Receiver.description = None

\* C13: asserting(D), then zero or more at_location calls, then that(subject)
\* gives a Spec with description D, the last location given (none if none was
\* given), no subject name, and the given subject.
C13_DescriptionBecomesSpec ==
    /\ last.op = "asserting"
           => (written.description = Some(last.arg) /\ written.location = None)
    /\ last.op = "that"
           => /\ unwrap(spec).description = written.description
              /\ is_some(written.description)
              /\ unwrap(spec).location = written.location
              /\ unwrap(spec).subject_name = None
              /\ unwrap(spec).subject = last.arg
              /\ prev.op = "asserting" => unwrap(spec).location = None
              /\ prev.op = "desc_at_location" => unwrap(spec).location = Some(prev.arg)

C13_Witness ==
    /\ last.op = "that"
    /\ prev.op = "desc_at_location"
    /\ is_some(unwrap(prev.pre).location)
    /\ unwrap(prev.pre).location # Some(prev.arg)
    /\ unwrap(spec).location = Some(prev.arg)

\* The checks of lib.rs and the unwrapping assertions, and when the condition
\* each one asserts is violated.
ChainOps == {"is_equal_to", "is_not_equal_to", "matches"} \cup UnwrapOps

Violated(op, s, arg) ==
    CASE op = "is_equal_to" -> ~eq(s, arg)
      [] op = "is_not_equal_to" -> eq(s, arg)
      [] op = "matches" -> ~Call(arg, s)
      [] op \in UnwrapOps -> ~Holds(op, s, arg)

\* The text by which the failure of each check is told from the others.
Signature(op) ==
    CASE op = "is_equal_to" -> <<"expected: ", "<">>
      [] op = "is_not_equal_to" -> <<">", " to not equal ", "<">>
      [] op = "matches" -> <<"expectation failed for value ">>
      [] op = "is_some" -> <<"expected: ", "option[some]">>
      [] op = "is_ok" -> <<"expected: ", "result[ok]">>
      [] op = "is_error" -> <<"expected: ", "result[error]">>
      [] op = "contains_key" -> <<"expected: ", "hashmap to contain key ">>

C14_FirstViolationRaises ==
    /\ (last.op \in ChainOps /\ Violated(last.op, Receiver.subject, last.arg))
           => /\ pc = "panicked"
              /\ is_some(panic)
              /\ Contains(unwrap(panic), Signature(last.op))
              /\ Builder.spec = Receiver
    /\ (last.op \in ChainOps /\ ~Violated(last.op, Receiver.subject, last.arg))
           => (panic = None /\ pc \in {"spec", "done"})
    /\ (prev.op \in ChainOps /\ last.op # "none")
           => ~Violated(prev.op, Original.subject, prev.arg)
    /\ pc = "panicked" <=> is_some(panic)

\* C14: in a chain of checks on one Spec the failure raised is that of the
\* first check whose condition is violated, nothing runs after it (no later
\* check, no retry), and a chain with no violated condition does not raise.
C14_FailureIsTerminal ==
    /\ []C14_FirstViolationRaises
    /\ [][pc # "panicked" /\ panic = None]_vars

C14_Witness ==
    /\ prev.op = "is_not_equal_to"
    /\ last.op = "is_equal_to"
    /\ prev.arg = last.arg
    /\ pc = "panicked"

\* C15: the description of a Spec is fixed when it is created: absent after
\* assert_that, the given text after SpecDescription::that, and the same
\* after any sequence of at_location, named, checks, map and unwrapping.
C15_DescriptionIsFixed ==
    /\ is_some(spec) => unwrap(spec).description = written.description
    /\ is_some(failure) => Builder.spec.description = written.description
    /\ last.op = "assert_that" => written.description = None
    /\ last.op = "that" => written.description = Some(unwrap(last.pre).value)

C15_Witness ==
    /\ is_some(written.description)
    /\ last.op = "named"
    /\ prev.op = "map"
    /\ unwrap(spec).description = unwrap(prev.pre).description

\* The checks that hand back the Spec they were called on, or ().
PlainChecks ==
    {"is_equal_to", "is_not_equal_to", "matches", "is_less_than",
     "is_less_than_or_equal_to", "is_greater_than", "is_greater_than_or_equal_to"}

\* C16: a check that returns normally leaves the subject and the Spec's
\* subject_name, location and description as they were: the subject is read,
\* never changed or replaced.
C16_ChecksOnlyRead ==
    (last.op \in PlainChecks /\ panic = None) => spec = last.pre

C16_Witness ==
    /\ last.op = "is_greater_than"
    /\ panic = None
    /\ pc = "done"
    /\ HasAllMetadata(Receiver)

\* C17: a failed asserting(D).that(&s).is_equal_to(&e) raises a message that
\* holds the one-line text "D: expected <e> but was <s>", and without a
\* description a failed is_equal_to raises a message that holds the one-line
\* text "expected <e> but was <s>", as tests/spectral.rs expects.
C17_SingleLineText ==
    (last.op = "is_equal_to" /\ is_some(panic))
        => LET s == Receiver
               line == <<"expected ">> \o Bracketed(last.arg) \o <<" but was ">>
                           \o Bracketed(s.subject)
           IN  Contains(unwrap(panic),
                        IF is_some(s.description)
                        THEN <<unwrap(s.description), ": ">> \o line
                        ELSE line)

\* The builder a setter was called on.
Before == unwrap(last.pre)

\* C18: with_expected sets only the expected text and with_actual only the
\* actual text: the other text and the Spec the builder refers to stay as
\* they were, the last text written to a field is the one it holds, and the
\* builder and the message of fail() are the same whichever setter ran first.
C18_SettersAreIndependent ==
    /\ last.op = "with_expected"
           => /\ Builder.expected = Some(last.arg)
              /\ Builder.actual = Before.actual
              /\ Builder.spec = Before.spec
              /\ Builder.spec = unwrap(spec)
    /\ last.op = "with_actual"
           => /\ Builder.actual = Some(last.arg)
              /\ Builder.expected = Before.expected
              /\ Builder.spec = Before.spec
              /\ Builder.spec = unwrap(spec)
    /\ (last.op = "with_expected" /\ prev.op = "with_actual")
           => Builder = with_actual(with_expected(unwrap(prev.pre), last.arg), prev.arg)
    /\ (last.op = "with_actual" /\ prev.op = "with_expected")
           => Builder = with_expected(with_actual(unwrap(prev.pre), last.arg), prev.arg)
    /\ (last.op = "fail" /\ is_some(Builder.expected) /\ is_some(Builder.actual))
           => LET b == from_spec(Builder.spec)
                  E == unwrap(Builder.expected)
                  A == unwrap(Builder.actual)
              IN  /\ unwrap(panic) = fail(with_actual(with_expected(b, E), A))
                  /\ unwrap(panic) = fail(with_expected(with_actual(b, A), E))

C18_Witness ==
    /\ last.op = "with_expected"
    /\ prev.op = "with_actual"
    /\ is_some(Before.expected)
    /\ Before.expected # Some(last.arg)
    /\ Builder.actual # Builder.expected

\* C19: with the colour codes empty, fail() on a Spec with description D,
\* subject name N and location L and with the texts E and A raises exactly
\* "\n\tD:\n\tfor subject [N]\n\texpected: E\n\t but was: A\n\n\tat location: L\n".
C19_ExactText ==
    (~colours /\ Rendered /\ HasAllMetadata(Builder.spec))
        => LET s == Builder.spec
           IN  unwrap(panic) =
                   <<"\n", "\t", unwrap(s.description), ":",
                     "\n", "\t", "for subject [", unwrap(s.subject_name), "]",
                     "\n", "\t", "expected: ">> \o unwrap(Builder.expected)
                   \o <<"\n", "\t", " but was: ">> \o unwrap(Builder.actual)
                   \o <<"\n", "\n", "\t", "at location: ", unwrap(s.location), "\n">>

C19_Witness ==
    /\ ~colours
    /\ Rendered
    /\ HasAllMetadata(Builder.spec)
    /\ last.op = "is_equal_to"

\* C20: for every pair (subject, other) of a PartialOrd type, incomparable
\* pairs included, is_less_than returns normally iff subject < other,
\* is_less_than_or_equal_to iff subject <= other, is_greater_than iff
\* subject > other and is_greater_than_or_equal_to iff subject >= other;
\* otherwise the call raises with the actual text "<subject>".
C20_OrderedIffComparison ==
    LET s == Receiver.subject
        o == last.arg
        raised == /\ is_some(panic)
                  /\ Builder.actual = Some(Bracketed(s))
    IN  /\ last.op = "is_less_than" => IF lt(s, o) THEN panic = None ELSE raised
        /\ last.op = "is_less_than_or_equal_to" => IF le(s, o) THEN panic = None ELSE raised
        /\ last.op = "is_greater_than" => IF gt(s, o) THEN panic = None ELSE raised
        /\ last.op = "is_greater_than_or_equal_to"
               => IF ge(s, o) THEN panic = None ELSE raised

\* The expected and the actual text of the failure that was raised.
Expected == unwrap(Builder.expected)

Actual == unwrap(Builder.actual)

\* The failure raised left the chain where it was and handed no Spec on.
NoSpecYielded == pc = "panicked" /\ is_some(panic) /\ spec = last.pre

\* C21: for every Option subject exactly one of is_some and is_none returns
\* normally, and for every Result subject exactly one of is_ok and is_error;
\* the failing one raises with the wanted variant as expected text and the
\* variant found as actual text, and hands no Spec on.
C21_ExactlyOneVariant ==
    LET s == Receiver.subject
    IN  /\ last.op \in {"is_some", "is_none"}
               => /\ (spec_is_some(Receiver).panic = None) # (is_none(Receiver).panic = None)
                  /\ panic = None <=> s.s = (IF last.op = "is_some" THEN "Some" ELSE "None")
        /\ last.op \in {"is_ok", "is_error"}
               => /\ (is_ok(Receiver).panic = None) # (is_error(Receiver).panic = None)
                  /\ panic = None <=> s.s = (IF last.op = "is_ok" THEN "Ok" ELSE "Err")
        /\ (last.op = "is_some" /\ s.s = "None")
               => /\ NoSpecYielded
                  /\ Expected = <<"option[some]">>
                  /\ Actual = <<"option[none]">>
        /\ (last.op = "is_none" /\ s.s = "Some")
               => /\ NoSpecYielded
                  /\ Expected = <<"option[none]">>
                  /\ Actual = <<"option", "<">> \o Debug(s.inner[1]) \o <<">">>
        /\ (last.op = "is_ok" /\ s.s = "Err")
               => /\ NoSpecYielded
                  /\ Expected = <<"result[ok]">>
                  /\ Actual = <<"result[error]">> \o Bracketed(s.inner[1])
        /\ (last.op = "is_error" /\ s.s = "Ok")
               => /\ NoSpecYielded
                  /\ Expected = <<"result[error]">>
                  /\ Actual = <<"result[ok]">> \o Bracketed(s.inner[1])

C21_Witness ==
    /\ last.op = "is_none"
    /\ Receiver.subject.s = "Some"
    /\ is_some(panic)
    /\ is_some(Receiver.subject_name)

\* C22: contains_value(e) on an Option subject returns normally iff the
\* subject is Some(v) with v == e; on Some(v) with v != e it raises with
\* expected "option to contain <e>" and actual "<v>", and on None with
\* expected "option<e>" and actual "option[none]".
C22_ContainsValue ==
    last.op = "contains_value"
        => LET s == Receiver.subject
               e == last.arg
           IN  IF s.s = "None"
               THEN /\ NoSpecYielded
                    /\ Expected = <<"option">> \o Bracketed(e)
                    /\ Actual = <<"option[none]">>
               ELSE IF eq(s.inner[1], e)
               THEN panic = None /\ failure = None /\ pc = "done"
               ELSE /\ NoSpecYielded
                    /\ Expected = <<"option to contain ">> \o Bracketed(e)
                    /\ Actual = Bracketed(s.inner[1])

C22_Witness ==
    /\ last.op = "contains_value"
    /\ Receiver.subject.s = "Some"
    /\ ~eq(Receiver.subject.inner[1], last.arg)
    /\ is_some(panic)

\* "ok" for Ok(v) and "err" for Err(v).
Variant(s) == IF s.s = "Ok" THEN "ok" ELSE "err"

Detail(variant, v) == <<"Result[", variant, "] containing ">> \o Bracketed(v)

\* C23: is_ok_containing(e) returns normally iff the subject is Ok(v) with
\* v == e, is_err_containing(e) iff it is Err(v) with v == e; on a mismatch
\* the expected text names the wanted variant with e and the actual text the
\* variant present with its value, so an Err that holds a value equal to e
\* still fails is_ok_containing, and an Ok is_err_containing.
C23_ContainingResult ==
    LET s == Receiver.subject
        e == last.arg
        wanted == IF last.op = "is_ok_containing" THEN "ok" ELSE "err"
    IN  last.op \in {"is_ok_containing", "is_err_containing"}
            => IF Variant(s) = wanted /\ eq(s.inner[1], e)
               THEN panic = None /\ failure = None /\ pc = "done"
               ELSE /\ NoSpecYielded
                    /\ Expected = Detail(wanted, e)
                    /\ Actual = Detail(Variant(s), s.inner[1])

C23_Witness ==
    /\ last.op = "is_ok_containing"
    /\ Receiver.subject.s = "Err"
    /\ Receiver.subject.inner[1] = last.arg
    /\ is_some(panic)

\* The map m holds the key k; it holds k with a value equal to v.
HasKey(m, k) == \E en \in Range(m.inner) : en.inner[1] = k

HasEntry(m, k, v) == \E en \in Range(m.inner) : en.inner[1] = k /\ eq(en.inner[2], v)

\* C27: contains_entry(k, v) returns normally iff the map holds k with a value
\* equal to v, and does_not_contain_entry(k, v) in exactly the other cases
\* (k absent, or k with another value); a failing contains_entry reports one
\* actual text for a missing key and another for a key with another value.
C27_EntriesAreComplementary ==
    last.op \in {"contains_entry", "does_not_contain_entry"}
        => LET m == Receiver.subject
               k == last.arg[1]
               v == last.arg[2]
               has == HasEntry(m, k, v)
           IN  /\ (contains_entry(Receiver, k, v).panic = None)
                      # (does_not_contain_entry(Receiver, k, v).panic = None)
               /\ panic = None <=> (IF last.op = "contains_entry" THEN has ELSE ~has)
               /\ panic = None => (failure = None /\ pc = "done")
               /\ is_some(panic) => NoSpecYielded
               /\ (last.op = "contains_entry" /\ ~has)
                      => /\ Contains(Actual, <<"no matching key, keys are ">>) <=> ~HasKey(m, k)
                         /\ Contains(Actual, <<"key ">> \o Bracketed(k) \o <<" with value ">>)
                                <=> HasKey(m, k)
                         /\ Expected = <<"hashmap containing key ">> \o Bracketed(k)
                                           \o <<" with value ">> \o Bracketed(v)

C27_Witness ==
    /\ last.op = "does_not_contain_entry"
    /\ HasKey(Receiver.subject, last.arg[1])
    /\ ~HasEntry(Receiver.subject, last.arg[1], last.arg[2])
    /\ panic = None
    /\ prev.op = "named"

\* A check that handed back the Spec it was called on, as it was.
SameSpecReturned == panic = None /\ failure = None /\ pc = "spec" /\ spec = last.pre

\* The items of the iterable the last assertion was called on.
Items == Receiver.subject.inner

Listed(items) == <<"<">> \o DebugVec(items) \o <<">">>

Differ(a, x, i) == i > Len(a) \/ i > Len(x) \/ ~eq(a[i], x[i])

FirstDifference(a, x) ==
    IF Len(a) = Len(x) /\ \A i \in 1..Len(a) : eq(a[i], x[i]) THEN 0
    ELSE CHOOSE i \in 1..(Len(a) + 1) :
             Differ(a, x, i) /\ \A j \in 1..(i - 1) : ~Differ(a, x, j)

\* What compare_iterators reports of one side at position p: the item there,
\* or that the iterator has completed, and the items read before it.
Report(seq, p) ==
    (IF p <= Len(seq)
     THEN <<"Iterator item of ">> \o Bracketed(seq[p]) \o <<" (read ">>
     ELSE <<"Completed iterator (read ">>)
        \o Listed(SubSeq(seq, 1, p - 1))

Reports(text, seq, p) == text \in {Report(seq, p), Report(seq, p) \o <<")">>}

\* C25: equals_iterator(expected) returns normally iff the subject and the
\* expected sequence have one length and are pairwise equal; otherwise it
\* raises at the first position where they differ or where one ends before
\* the other, and reports for each side the item at that position (or a
\* completed iterator) and the items read before it, as many on both sides.
C25_EqualsIterator ==
    last.op = "equals_iterator"
        => LET x == last.arg.inner
               p == FirstDifference(Items, x)
           IN  IF p = 0
               THEN SameSpecReturned
               ELSE /\ NoSpecYielded
                    /\ Reports(Expected, x, p)
                    /\ Reports(Actual, Items, p)

C25_Witness ==
    /\ last.op = "equals_iterator"
    /\ is_some(panic)
    /\ FirstDifference(Items, last.arg.inner) = 2
    /\ Len(Items) = 2
    /\ Len(last.arg.inner) = 2

C28_FailNeverReturns ==
    /\ pc = "panicked" <=> is_some(panic)
    /\ (is_some(failure) /\ pc # "building") => (is_some(panic) /\ pc = "panicked")
    /\ last.op = "fail"
           => /\ is_some(panic)
              /\ (unwrap(panic) = <<"invalid assertion">>)
                     # Contains(unwrap(panic), <<"expected: ">>)
    /\ (last.op \in UnwrapOps /\ ~Holds(last.op, Receiver.subject, last.arg))
           => /\ is_some(failure)
              /\ NoSpecYielded
              /\ Contains(unwrap(panic), <<"expected: ">> \o Expected)

C28_Witness ==
    /\ last.op = "contains_key"
    /\ ~Holds(last.op, Receiver.subject, last.arg)
    /\ pc = "panicked"
    /\ is_some(Receiver.location)

\* C29: the metadata is read when the failure is raised, not when the Spec is
\* made: where named(N) or at_location(L) is called after checks that passed,
\* a later failing check on the Spec raises a message that carries N and L,
\* and a check that failed before the call carries neither.
C29_MetadataReadAtFailure ==
    (last.op \in {"is_equal_to", "is_not_equal_to"} /\ is_some(panic))
        => /\ \A n \in SubjectNames :
                  Contains(unwrap(panic), <<"for subject [", n, "]">>)
                      <=> written.subject_name = Some(n)
           /\ \A l \in Locations :
                  Contains(unwrap(panic), <<"at location: ", l>>)
                      <=> written.location = Some(l)
           /\ written.subject_name = None => ~Contains(unwrap(panic), <<"for subject [">>)
           /\ written.location = None => ~Contains(unwrap(panic), <<"at location: ">>)

C29_Witness ==
    /\ last.op = "is_equal_to"
    /\ is_some(panic)
    /\ written.late
    /\ prev.op \in {"named", "at_location"}
    /\ is_some(written.subject_name)
    /\ is_some(written.location)

\* The unwrapping assertion left the Spec it was called on as it was.
C30_ReceiverKept ==
    (last.op \in UnwrapOps /\ panic = None)
        => /\ outer = last.pre
           /\ is_some(spec)
           /\ unwrap(spec).subject = Contained(last.op, Receiver.subject, last.arg)

\* A call on one of the two Specs leaves the other as it was.
C30_Independent ==
    /\ last'.op \in {"named", "at_location"} => outer' = outer
    /\ last'.op \in {"outer.named", "outer.at_location"} => spec' = spec
    /\ last'.op = "named" => unwrap(spec').subject_name = Some(last'.arg)
    /\ last'.op = "outer.named" => unwrap(outer').subject_name = Some(last'.arg)
    /\ last'.op = "at_location" => unwrap(spec').location = Some(last'.arg)
    /\ last'.op = "outer.at_location" => unwrap(outer').location = Some(last'.arg)

\* C30: is_some, is_ok, is_error and contains_key leave the Spec they are
\* called on unchanged and return an independent Spec: a later named or
\* at_location call on the returned Spec does not change the subject_name or
\* location of the original, and a later call on the original does not change
\* the returned one.
C30_UnwrapReturnsIndependentSpec ==
    /\ []C30_ReceiverKept
    /\ [][C30_Independent]_vars

C30_Witness ==
    /\ last.op = "outer.named"
    /\ prev.op = "named"
    /\ is_some(unwrap(spec).subject_name)
    /\ is_some(unwrap(outer).subject_name)
    /\ unwrap(spec).subject_name # unwrap(outer).subject_name

====
